---- MODULE Spec2Model ----
(***************************************************************************)
(* State-machine model of src/main.py: the "hello-world" MCP server.       *)
(*                                                                         *)
(* Module-level state built once at import (WIDGET_BUNDLE, WIDGET_HTML),   *)
(* the three list handlers, the read-resource handler and the call-tool    *)
(* handler.  Python strings are TLA+ strings; JSON values that reach the   *)
(* handlers untyped (tool arguments) are tagged records [type, value].     *)
(***************************************************************************)
EXTENDS Integers, Sequences, FiniteSets, TLC

VARIABLES
    WIDGET_BUNDLE,  \* module global, main.py:26-38
    WIDGET_HTML,    \* module global, main.py:42-47
    clock,          \* the current-time source of the environment
    resp,           \* the last request served one at a time, with its outcome
    listed,         \* first result each list operation returned (<<>> = not yet)
    inflight        \* requests being served concurrently, one per slot

vars == <<WIDGET_BUNDLE, WIDGET_HTML, clock, resp, listed, inflight>>

(***************************************************************************)
(* Bounds of the model.                                                    *)
(***************************************************************************)
MaxClock == 2
MaxInFlight == 3
Slots == 1..MaxInFlight

(***************************************************************************)
(* Python string helpers.                                                  *)
(***************************************************************************)
Whitespace == {" ", "\n", "\t", "\r"}

RECURSIVE LStrip(_)
LStrip(s) ==
    IF Len(s) > 0 /\ SubSeq(s, 1, 1) \in Whitespace
    THEN LStrip(SubSeq(s, 2, Len(s)))
    ELSE s

RECURSIVE RStrip(_)
RStrip(s) ==
    IF Len(s) > 0 /\ SubSeq(s, Len(s), Len(s)) \in Whitespace
    THEN RStrip(SubSeq(s, 1, Len(s) - 1))
    ELSE s

\* str.strip()
Strip(s) == RStrip(LStrip(s))

\* `sub in s`
Contains(s, sub) ==
    \E i \in 1..(Len(s) - Len(sub) + 1) : SubSeq(s, i, i + Len(sub) - 1) = sub

(***************************************************************************)
(* Startup (main.py:24-47).  The environment decides whether               *)
(* WIDGET_REPO_URL is set and whether the fetch succeeds.                  *)
(***************************************************************************)
FetchedBodies == {"render();"}

StartupEnvs ==
    {[url_set |-> FALSE, fetch_ok |-> FALSE, body |-> ""]}
    \cup {[url_set |-> TRUE, fetch_ok |-> FALSE, body |-> ""]}
    \cup {[url_set |-> TRUE, fetch_ok |-> TRUE, body |-> b] : b \in FetchedBodies}

LoadWidgetBundle(env) ==
    IF env.url_set
    THEN IF env.fetch_ok
         THEN env.body
         ELSE "console.error('Widget bundle not loaded');"
    ELSE "console.error('WIDGET_REPO_URL not configured');"

RenderWidgetHtml(bundle) ==
    Strip("\n<div id=\"root\"></div>\n<script>\n" \o bundle \o "\n</script>\n")

WIDGET_URI == "ui://widget/widget.html"
MIME_TYPE == "text/html+skybridge"

(***************************************************************************)
(* URLs.  request.params.uri is a parsed URL object; the handler compares  *)
(* and reports its string form str(uri).                                   *)
(***************************************************************************)
UrlSchemes == {"ui", "file"}
UrlRests == {"widget/widget.html", "widget/missing.html",
             "widget/widget.html/x", "widget/", "widget/{name}.html"}
Urls == [scheme : UrlSchemes, rest : UrlRests]

\* str(url)
UrlStr(u) == u.scheme \o "://" \o u.rest

\* The URL object a uri string deserializes to.
ParseUrl(s) == CHOOSE u \in Urls : UrlStr(u) = s

(***************************************************************************)
(* Capability registry: the list handlers (main.py:55-81, 113-149).        *)
(***************************************************************************)
\* A registry that a failed request empties.
_list_resources_dropped ==
    IF resp.result.kind = "ValueError"
    THEN << >>
    ELSE << [uri |-> WIDGET_URI,
             name |-> "Hello World Widget",
             title |-> "Hello World Widget",
             description |-> "Interactive hello world widget UI",
             mimeType |-> MIME_TYPE] >>

_list_resources ==
    << [uri |-> WIDGET_URI,
        name |-> "Hello World Widget",
        title |-> "Hello World Widget",
        description |-> "Interactive hello world widget UI",
        mimeType |-> MIME_TYPE] >>

_list_resource_templates ==
    << [uriTemplate |-> WIDGET_URI,
        name |-> "Hello World Widget",
        title |-> "Hello World Widget",
        description |-> "Interactive hello world widget UI template",
        mimeType |-> MIME_TYPE] >>

say_hello_inputSchema ==
    [type |-> "object",
     properties |-> [name |-> [type |-> "string"], message |-> [type |-> "string"]],
     required |-> {},
     additionalProperties |-> FALSE]

\* An output template that names no registered resource.
say_hello_meta_dangling ==
    ("openai/outputTemplate" :> "ui://widget/hello.html")
    @@ ("openai/toolInvocation/invoking" :> "Generating hello world greeting...")
    @@ ("openai/toolInvocation/invoked" :> "Greeting generated successfully")
    @@ ("openai/widgetAccessible" :> TRUE)
    @@ ("openai/resultCanProduceWidget" :> TRUE)
    @@ ("annotations" :> [destructiveHint |-> FALSE, openWorldHint |-> FALSE,
                          readOnlyHint |-> TRUE])

say_hello_meta ==
    ("openai/outputTemplate" :> WIDGET_URI)
    @@ ("openai/toolInvocation/invoking" :> "Generating hello world greeting...")
    @@ ("openai/toolInvocation/invoked" :> "Greeting generated successfully")
    @@ ("openai/widgetAccessible" :> TRUE)
    @@ ("openai/resultCanProduceWidget" :> TRUE)
    @@ ("annotations" :> [destructiveHint |-> FALSE, openWorldHint |-> FALSE,
                          readOnlyHint |-> TRUE])

\* A descriptor advertised under a name the dispatcher does not know.
_list_tools_renamed ==
    << [name |-> "say_hello2",
        title |-> "Say Hello",
        description |->
            "Generates a personalized hello world greeting with optional custom message",
        inputSchema |-> say_hello_inputSchema,
        meta |-> say_hello_meta] >>

_list_tools ==
    << [name |-> "say_hello",
        title |-> "Say Hello",
        description |->
            "Generates a personalized hello world greeting with optional custom message",
        inputSchema |-> say_hello_inputSchema,
        meta |-> say_hello_meta] >>

(***************************************************************************)
(* Read-resource handler (main.py:85-109).                                 *)
(***************************************************************************)
widget_meta ==
    ("openai/widgetPrefersBorder" :> TRUE)
    @@ ("openai/widgetDomain" :> "https://chatgpt.com")
    @@ ("openai/widgetCSP" :>
            [connect_domains |-> <<"https://chatgpt.com">>,
             resource_domains |-> <<"https://persistent.oaistatic.com">>])
    @@ ("openai/widgetDescription" :> "Interactive hello world display")

\* Prefix matching instead of equality.
_handle_read_resource_prefix(request) ==
    IF ~ ( /\ Len(UrlStr(request.params.uri)) >= Len(WIDGET_URI)
           /\ SubSeq(UrlStr(request.params.uri), 1, Len(WIDGET_URI)) = WIDGET_URI )
    THEN [kind |-> "ValueError",
          message |-> "Unknown resource URI: " \o UrlStr(request.params.uri)]
    ELSE [kind |-> "ReadResourceResult",
          contents |-> << [uri |-> WIDGET_URI,
                           mimeType |-> MIME_TYPE,
                           text |-> WIDGET_HTML,
                           meta |-> widget_meta] >>]

_handle_read_resource(request) ==
    IF UrlStr(request.params.uri) # WIDGET_URI
    THEN [kind |-> "ValueError",
          message |-> "Unknown resource URI: " \o UrlStr(request.params.uri)]
    ELSE [kind |-> "ReadResourceResult",
          contents |-> << [uri |-> WIDGET_URI,
                           mimeType |-> MIME_TYPE,
                           text |-> WIDGET_HTML,
                           meta |-> widget_meta] >>]

(***************************************************************************)
(* JSON values of tool arguments, tagged with their JSON type; an integer  *)
(* carries its literal text.                                               *)
(***************************************************************************)
JStr(s) == [type |-> "string", value |-> s]
JInt(lit) == [type |-> "integer", value |-> lit]
JNull == [type |-> "null", value |-> "null"]

\* How an f-string renders a value: str(v).
Format(v) ==
    CASE v.type = "string" -> v.value
      [] v.type = "integer" -> v.value
      [] v.type = "null" -> "None"

\* dict.get(key, default)
Get(d, key, default) == IF key \in DOMAIN d THEN d[key] ELSE default

EmptyDict == [k \in {} |-> JNull]
\* request.params.arguments: None or a dict
NoArguments == [none |-> TRUE, dict |-> EmptyDict]
SomeArguments(d) == [none |-> FALSE, dict |-> d]

(***************************************************************************)
(* Call-tool handler (main.py:153-193).                                    *)
(***************************************************************************)
\* "Generate greeting data", main.py:166-174
say_hello_data(name, message) ==
    [greeting |-> JStr("Hello, " \o Format(name) \o "!"),
     message |-> message,
     timestamp |-> JStr("2024-01-01T00:00:00Z"),
     metadata |-> [app |-> "Hello World MCP", version |-> "1.0.0"]]

\* A result whose model-visible message is not read from data.
say_hello_result_diverged(name, message) ==
    LET data == say_hello_data(name, message)
    IN  [kind |-> "CallToolResult",
         content |-> << [type |-> "text",
                         text |-> "Hello, " \o Format(name) \o "! "
                                  \o Format(message)] >>,
         structuredContent |-> [greeting |-> data.greeting,
                                message |-> JStr("Welcome to the Hello World app!")],
         meta |-> [fullData |-> data]]

\* "Return structured content for the widget", main.py:177-191
say_hello_result(name, message) ==
    LET data == say_hello_data(name, message)
    IN  [kind |-> "CallToolResult",
         content |-> << [type |-> "text",
                         text |-> "Hello, " \o Format(name) \o "! "
                                  \o Format(message)] >>,
         structuredContent |-> [greeting |-> data.greeting,
                                message |-> data.message],
         meta |-> [fullData |-> data]]

\* request.params.arguments or {}
ArgumentsOrEmpty(a) == IF a.none \/ DOMAIN a.dict = {} THEN EmptyDict ELSE a.dict

\* Defaults applied only when no argument at all was supplied.
_call_tool_request_coupled(request) ==
    LET tool_name == request.params.name
        arguments == ArgumentsOrEmpty(request.params.arguments)
    IN  IF tool_name = "say_hello"
        THEN IF DOMAIN arguments = {}
             THEN say_hello_result(JStr("World"),
                                   JStr("Welcome to the Hello World app!"))
             ELSE say_hello_result(Get(arguments, "name", JStr("World")),
                                   Get(arguments, "message", JStr("")))
        ELSE [kind |-> "ValueError", message |-> "Unknown tool: " \o tool_name]

\* Dispatch on a prefix of the tool name.
_call_tool_request_prefix(request) ==
    LET tool_name == request.params.name
        arguments == ArgumentsOrEmpty(request.params.arguments)
    IN  IF Len(tool_name) >= 9 /\ SubSeq(tool_name, 1, 9) = "say_hello"
        THEN say_hello_result(Get(arguments, "name", JStr("World")),
                              Get(arguments, "message",
                                  JStr("Welcome to the Hello World app!")))
        ELSE [kind |-> "ValueError", message |-> "Unknown tool: " \o tool_name]

\* Arguments kept in a module global that every arriving call overwrites:
\* the handler reads those of the oldest call still pending.
_call_tool_request_shared(request) ==
    LET tool_name == request.params.name
        pending == {s \in Slots : /\ inflight[s].state = "pending"
                                  /\ inflight[s].request.method = "tools/call"}
        current == IF pending = {}
                   THEN request
                   ELSE inflight[CHOOSE s \in pending : \A t \in pending : s <= t].request
        arguments == ArgumentsOrEmpty(current.params.arguments)
    IN  IF tool_name = "say_hello"
        THEN say_hello_result(Get(arguments, "name", JStr("World")),
                              Get(arguments, "message",
                                  JStr("Welcome to the Hello World app!")))
        ELSE [kind |-> "ValueError", message |-> "Unknown tool: " \o tool_name]

_call_tool_request(request) ==
    LET tool_name == request.params.name
        arguments == ArgumentsOrEmpty(request.params.arguments)
    IN  IF tool_name = "say_hello"
        THEN say_hello_result(Get(arguments, "name", JStr("World")),
                              Get(arguments, "message",
                                  JStr("Welcome to the Hello World app!")))
        ELSE [kind |-> "ValueError", message |-> "Unknown tool: " \o tool_name]

(***************************************************************************)
(* Typed protocol requests handed to the handlers.                         *)
(***************************************************************************)
ListResourcesRequest == [method |-> "resources/list"]
ListResourceTemplatesRequest == [method |-> "resources/templates/list"]
ListToolsRequest == [method |-> "tools/list"]
ReadResourceRequest(u) == [method |-> "resources/read", params |-> [uri |-> u]]
CallToolRequest(n, a) ==
    [method |-> "tools/call", params |-> [name |-> n, arguments |-> a]]

ListMethods == {"resources/list", "resources/templates/list", "tools/list"}

\* Inputs a client may send.
ToolNames == {"say_hello", "nonexistent", "say_hello2"}
ArgKeys == {"name", "message", "extra"}
ArgValues(k) ==
    CASE k = "name" -> {JStr("Ada"), JStr(""), JInt("1"), JNull}
      [] k = "message" -> {JStr("Hi!"), JInt("1")}
      [] k = "extra" -> {JInt("1")}
AllArgValues == UNION {ArgValues(k) : k \in ArgKeys}
ArgDicts ==
    UNION {{d \in [S -> AllArgValues] : \A k \in S : d[k] \in ArgValues(k)} :
           S \in SUBSET ArgKeys}
ToolArguments == {NoArguments} \cup {SomeArguments(d) : d \in ArgDicts}

(***************************************************************************)
(* The server's request routing: the decorators of main.py:55,70,113 and   *)
(* the request_handlers table of main.py:197-198.                          *)
(***************************************************************************)
Route(request) ==
    CASE request.method = "resources/list" ->
            [kind |-> "ListResult", items |-> _list_resources]
      [] request.method = "resources/templates/list" ->
            [kind |-> "ListResult", items |-> _list_resource_templates]
      [] request.method = "tools/list" ->
            [kind |-> "ListResult", items |-> _list_tools]
      [] request.method = "resources/read" -> _handle_read_resource(request)
      [] request.method = "tools/call" -> _call_tool_request(request)

(***************************************************************************)
(* One request at a time.                                                  *)
(***************************************************************************)
NoResponse == [request |-> [method |-> "none"], at |-> 0, result |-> [kind |-> "none"]]
Idle == [state |-> "idle"]

Init ==
    /\ \E env \in StartupEnvs :
          /\ WIDGET_BUNDLE = LoadWidgetBundle(env)
          /\ WIDGET_HTML = RenderWidgetHtml(LoadWidgetBundle(env))
    /\ clock = 0
    /\ resp = NoResponse
    /\ listed = [m \in ListMethods |-> <<>>]
    /\ inflight = [s \in Slots |-> Idle]

\* The environment's clock advances.
Tick ==
    /\ clock < MaxClock
    /\ clock' = clock + 1
    /\ UNCHANGED <<WIDGET_BUNDLE, WIDGET_HTML, resp, listed, inflight>>

\* What the front-end records for a request served at the current time.
Response(request) == [request |-> request, at |-> clock, result |-> Route(request)]

Listed(request) ==
    IF listed[request.method] = << >>
    THEN [listed EXCEPT ![request.method] = Route(request).items]
    ELSE listed

ListResources ==
    /\ resp' = Response(ListResourcesRequest)
    /\ listed' = Listed(ListResourcesRequest)
    /\ UNCHANGED <<WIDGET_BUNDLE, WIDGET_HTML, clock, inflight>>

ListResourceTemplates ==
    /\ resp' = Response(ListResourceTemplatesRequest)
    /\ listed' = Listed(ListResourceTemplatesRequest)
    /\ UNCHANGED <<WIDGET_BUNDLE, WIDGET_HTML, clock, inflight>>

ListTools ==
    /\ resp' = Response(ListToolsRequest)
    /\ listed' = Listed(ListToolsRequest)
    /\ UNCHANGED <<WIDGET_BUNDLE, WIDGET_HTML, clock, inflight>>

ReadResource ==
    /\ \E u \in Urls : resp' = Response(ReadResourceRequest(u))
    /\ UNCHANGED <<WIDGET_BUNDLE, WIDGET_HTML, clock, listed, inflight>>

CallTool ==
    /\ \E n \in ToolNames, a \in ToolArguments : resp' = Response(CallToolRequest(n, a))
    /\ UNCHANGED <<WIDGET_BUNDLE, WIDGET_HTML, clock, listed, inflight>>

Next ==
    \/ Tick
    \/ ListResources
    \/ ListResourceTemplates
    \/ ListTools
    \/ ReadResource
    \/ CallTool

Spec == Init /\ [][Next]_vars

(***************************************************************************)
(* Concurrent requests: each slot holds one request in flight; the event   *)
(* loop runs the handlers, which never suspend, in any order.              *)
(***************************************************************************)
ConcRequests ==
    {CallToolRequest("say_hello", NoArguments),
     CallToolRequest("say_hello", SomeArguments([name |-> JStr("Ada")])),
     CallToolRequest("say_hello", SomeArguments([extra |-> JInt("1")])),
     CallToolRequest("nonexistent", NoArguments),
     ReadResourceRequest(ParseUrl(WIDGET_URI)),
     ReadResourceRequest(ParseUrl("ui://widget/missing.html"))}

Receive(s) ==
    /\ inflight[s].state = "idle"
    /\ \E r \in ConcRequests :
          inflight' = [inflight EXCEPT ![s] = [state |-> "pending", request |-> r]]
    /\ UNCHANGED <<WIDGET_BUNDLE, WIDGET_HTML, clock, resp, listed>>

Serve(s) ==
    /\ inflight[s].state = "pending"
    /\ inflight' = [inflight EXCEPT ![s] =
                       [state |-> "done",
                        request |-> inflight[s].request,
                        result |-> Route(inflight[s].request),
                        alone |-> \A t \in Slots \ {s} : inflight[t].state = "idle"]]
    /\ UNCHANGED <<WIDGET_BUNDLE, WIDGET_HTML, clock, resp, listed>>

Release(s) ==
    /\ inflight[s].state = "done"
    /\ inflight' = [inflight EXCEPT ![s] = Idle]
    /\ UNCHANGED <<WIDGET_BUNDLE, WIDGET_HTML, clock, resp, listed>>

NextConc ==
    \/ \E s \in Slots : Receive(s)
    \/ \E s \in Slots : Serve(s)
    \/ \E s \in Slots : Release(s)

SpecConc == Init /\ [][NextConc]_vars

(***************************************************************************)
(* Vocabulary of the properties.                                           *)
(***************************************************************************)
IsCall(r) == r.request.method = "tools/call"
IsRead(r) == r.request.method = "resources/read"
IsSayHello(r) == IsCall(r) /\ r.request.params.name = "say_hello"
ArgsOf(r) == IF r.request.params.arguments.none
             THEN EmptyDict
             ELSE r.request.params.arguments.dict

\* JSON-Schema object validation of an argument dict against an inputSchema.
SchemaValid(schema, d) ==
    /\ \A k \in DOMAIN d :
          IF k \in DOMAIN schema.properties
          THEN d[k].type = schema.properties[k].type
          ELSE schema.additionalProperties
    /\ schema.required \subseteq DOMAIN d

\* How the failures of the spec show in the code: a ValueError whose message
\* starts with the condition.
StartsWith(s, prefix) ==
    Len(s) >= Len(prefix) /\ SubSeq(s, 1, Len(prefix)) = prefix
UnknownTool(result) ==
    result.kind = "ValueError" /\ StartsWith(result.message, "Unknown tool")
UnknownResource(result) ==
    result.kind = "ValueError" /\ StartsWith(result.message, "Unknown resource")

\* The clock reading as an ISO-8601 instant, counted in seconds from the epoch
\* of the model.
IsoTime(t) == "2024-01-01T00:00:0" \o ToString(t) \o "Z"

RegisteredToolNames == {_list_tools[i].name : i \in DOMAIN _list_tools}
RegisteredUris == {_list_resources[i].uri : i \in DOMAIN _list_resources}

(***************************************************************************)
(* C1: say_hello called with arguments that violate its input schema (an   *)
(* extra property, a non-string name or message) fails with                *)
(* InvalidArguments and returns no ToolResult.                             *)
(***************************************************************************)
C1_InvalidArgumentsRejected ==
    (IsSayHello(resp) /\ ~SchemaValid(say_hello_inputSchema, ArgsOf(resp)))
        => /\ resp.result.kind # "CallToolResult"
           /\ resp.result.kind = "InvalidArguments"

(***************************************************************************)
(* C2: for schema-valid arguments of say_hello the text is                 *)
(* "Hello, {n}! {m}" and structuredContent is exactly                      *)
(* {greeting: "Hello, {n}!", message: m}, n and m being the supplied       *)
(* values or, independently per field, the defaults.                       *)
(***************************************************************************)
C2_SayHelloResult ==
    (IsSayHello(resp) /\ SchemaValid(say_hello_inputSchema, ArgsOf(resp)))
        => LET d == ArgsOf(resp)
               n == IF "name" \in DOMAIN d THEN d["name"].value ELSE "World"
               m == IF "message" \in DOMAIN d
                    THEN d["message"].value
                    ELSE "Welcome to the Hello World app!"
           IN  /\ resp.result.kind = "CallToolResult"
               /\ resp.result.content =
                      << [type |-> "text", text |-> "Hello, " \o n \o "! " \o m] >>
               /\ resp.result.structuredContent =
                      [greeting |-> JStr("Hello, " \o n \o "!"), message |-> JStr(m)]
               /\ (d = [name |-> JStr("Ada")]
                      => resp.result.content[1].text
                             = "Hello, Ada! Welcome to the Hello World app!")
               /\ (DOMAIN d = {}
                      => resp.result.content[1].text
                             = "Hello, World! Welcome to the Hello World app!")

\* name supplied, message defaulted
C2_Witness ==
    /\ IsSayHello(resp)
    /\ ~resp.request.params.arguments.none
    /\ ArgsOf(resp) = [name |-> JStr("Ada")]
    /\ resp.result.kind = "CallToolResult"
    /\ resp.result.structuredContent.message = JStr("Welcome to the Hello World app!")

(***************************************************************************)
(* C3: the timestamp in a say_hello result's privateMetadata is the        *)
(* reading of the clock at the invocation.                                 *)
(***************************************************************************)
C3_TimestampAtInvocation ==
    (IsSayHello(resp) /\ resp.result.kind = "CallToolResult")
        => resp.result.meta.fullData.timestamp = JStr(IsoTime(resp.at))

(***************************************************************************)
(* C4: a call naming a tool that is not registered fails with UnknownTool, *)
(* the failure names exactly the requested name, and no ToolResult is      *)
(* produced, whatever the arguments.                                       *)
(***************************************************************************)
C4_UnknownTool ==
    (IsCall(resp) /\ resp.request.params.name \notin RegisteredToolNames)
        => /\ UnknownTool(resp.result)
           /\ resp.result.message = "Unknown tool: " \o resp.request.params.name
           /\ resp.result.kind # "CallToolResult"

\* a near-miss name, with arguments that would be valid for say_hello
C4_Witness ==
    /\ IsCall(resp)
    /\ resp.request.params.name = "say_hello2"
    /\ ArgsOf(resp) = [name |-> JStr("Ada"), message |-> JStr("Hi!")]
    /\ resp.result.kind = "ValueError"

(***************************************************************************)
(* C5: readResource returns content iff the uri equals a registered        *)
(* descriptor's uri; the content carries that uri, the descriptor's        *)
(* mimeType and the widget HTML containing the script body; any other uri  *)
(* fails with UnknownResource identifying the uri.                         *)
(***************************************************************************)
C5_ReadResource ==
    IsRead(resp)
        => LET uri == UrlStr(resp.request.params.uri)
               matches == {i \in DOMAIN _list_resources : _list_resources[i].uri = uri}
           IN  /\ (resp.result.kind = "ReadResourceResult") <=> (matches # {})
               /\ matches # {}
                     => \E i \in matches :
                           /\ Len(resp.result.contents) = 1
                           /\ resp.result.contents[1].uri = uri
                           /\ resp.result.contents[1].mimeType
                                  = _list_resources[i].mimeType
                           /\ resp.result.contents[1].text = WIDGET_HTML
                           /\ Contains(resp.result.contents[1].text, WIDGET_BUNDLE)
               /\ matches = {}
                     => /\ UnknownResource(resp.result)
                        /\ Contains(resp.result.message, uri)

\* a uri that extends the registered one is refused
C5_Witness ==
    /\ IsRead(resp)
    /\ UrlStr(resp.request.params.uri) = "ui://widget/widget.html/x"
    /\ resp.result.kind = "ValueError"
    /\ listed["resources/list"] # << >>

(***************************************************************************)
(* C6: in every say_hello result, privateMetadata has a greeting and a     *)
(* message, equal to those of structuredContent and to those rendered in   *)
(* the text.                                                               *)
(***************************************************************************)
C6_NoDivergence ==
    (IsCall(resp) /\ resp.result.kind = "CallToolResult")
        => LET data == resp.result.meta.fullData
           IN  /\ {"greeting", "message"} \subseteq DOMAIN data
               /\ data.greeting = resp.result.structuredContent.greeting
               /\ data.message = resp.result.structuredContent.message
               /\ resp.result.content[1].text
                      = Format(data.greeting) \o " " \o Format(data.message)

C6_Witness ==
    /\ IsSayHello(resp)
    /\ resp.result.kind = "CallToolResult"
    /\ ArgsOf(resp) = [name |-> JStr("Ada"), message |-> JStr("Hi!")]
    /\ resp.result.meta.fullData.message = JStr("Hi!")

(***************************************************************************)
(* C7: once listed, exactly the listed tool names are accepted by          *)
(* invokeTool (no UnknownTool) and exactly the listed resource uris by     *)
(* readResource (no UnknownResource).                                      *)
(***************************************************************************)
C7_DiscoveryAgreesWithLookup ==
    /\ (IsCall(resp) /\ listed["tools/list"] # << >>)
          => LET names == {listed["tools/list"][i].name :
                               i \in DOMAIN listed["tools/list"]}
             IN  (~UnknownTool(resp.result)) <=> (resp.request.params.name \in names)
    /\ (IsRead(resp) /\ listed["resources/list"] # << >>)
          => LET uris == {listed["resources/list"][i].uri :
                              i \in DOMAIN listed["resources/list"]}
             IN  (~UnknownResource(resp.result))
                     <=> (UrlStr(resp.request.params.uri) \in uris)

\* the listed name, called after the listing, is served
C7_Witness ==
    /\ listed["tools/list"] # << >>
    /\ listed["resources/list"] # << >>
    /\ IsCall(resp)
    /\ resp.request.params.name = listed["tools/list"][1].name
    /\ resp.result.kind = "CallToolResult"

(***************************************************************************)
(* C8: no request, failed or not, changes the widget content or the        *)
(* registry, and every list result equals the first one of its kind.       *)
(***************************************************************************)
C8_RegistryFrozen ==
    [][ /\ WIDGET_BUNDLE' = WIDGET_BUNDLE
        /\ WIDGET_HTML' = WIDGET_HTML
        /\ _list_resources' = _list_resources
        /\ _list_resource_templates' = _list_resource_templates
        /\ _list_tools' = _list_tools
        /\ (resp'.request.method \in ListMethods
               => resp'.result.items = listed'[resp'.request.method]) ]_vars

\* a listing repeated after every kind of listing was done and time has passed
C8_Witness ==
    /\ resp.request.method = "resources/list"
    /\ resp.at = MaxClock
    /\ \A m \in ListMethods : listed[m] # << >>
    /\ resp.result.items = listed["resources/list"]

(***************************************************************************)
(* C9: under concurrency the outcome of a request, the timestamp apart,    *)
(* depends on that request alone: equal requests have equal outcomes,      *)
(* whether served with nothing else in flight or among other requests.     *)
(***************************************************************************)
WithoutTimestamp(result) ==
    IF result.kind = "CallToolResult"
    THEN [result EXCEPT !.meta.fullData.timestamp = JStr("")]
    ELSE result

C9_OutcomeDependsOnInputAlone ==
    \A a, b \in Slots :
        ( /\ inflight[a].state = "done"
          /\ inflight[b].state = "done"
          /\ inflight[a].request.method = inflight[b].request.method
          /\ inflight[a].request = inflight[b].request )
            => WithoutTimestamp(inflight[a].result)
                   = WithoutTimestamp(inflight[b].result)

\* one request served alone, the same request served while another was in flight
C9_Witness ==
    \E a, b, c \in Slots :
        /\ a # b /\ b # c /\ a # c
        /\ inflight[a].state = "done" /\ inflight[a].alone
        /\ inflight[b].state = "done" /\ ~inflight[b].alone
        /\ inflight[a].request = CallToolRequest("say_hello", NoArguments)
        /\ inflight[b].request = CallToolRequest("say_hello", NoArguments)
        /\ inflight[c].state # "idle"
        /\ inflight[c].request
               = CallToolRequest("say_hello", SomeArguments([name |-> JStr("Ada")]))

(***************************************************************************)
(* C10: the output template of every listed tool is the uri of a listed    *)
(* resource and of a listed resource template, and reading it succeeds.    *)
(***************************************************************************)
C10_OutputTemplateResolvable ==
    \A i \in DOMAIN listed["tools/list"] :
        LET t == listed["tools/list"][i].meta["openai/outputTemplate"]
        IN  /\ \E j \in DOMAIN _list_resources : _list_resources[j].uri = t
            /\ \E j \in DOMAIN _list_resource_templates :
                   _list_resource_templates[j].uriTemplate = t
            /\ \E u \in Urls :
                   /\ UrlStr(u) = t
                   /\ _handle_read_resource(ReadResourceRequest(u)).kind
                          = "ReadResourceResult"
            /\ (IsRead(resp) /\ UrlStr(resp.request.params.uri) = t)
                   => resp.result.kind = "ReadResourceResult"

\* the host lists the tools, then reads the bound template
C10_Witness ==
    /\ listed["tools/list"] # << >>
    /\ IsRead(resp)
    /\ UrlStr(resp.request.params.uri)
           = listed["tools/list"][1].meta["openai/outputTemplate"]
    /\ resp.result.kind = "ReadResourceResult"

====
